---- MODULE Spec2Model ----
(***************************************************************************)
(* Model of the resampling and granular synthesis engine of Source.cpp:    *)
(* SampleChannelFractional, TimeAdjust, SplatGrainToOutput,                *)
(* GranularTimePitchAdjust and GranularTimePitchAdjustDynamic.             *)
(*                                                                         *)
(* Sample values are symbolic: input[i] is denoted by its interleaved      *)
(* offset i, and an output slot holds the set of terms that were added     *)
(* into it.  Every float of the source is an IEEE-754 single, modelled as  *)
(* the exact dyadic rational m / 2^e it holds, every operation rounding    *)
(* its exact result to 24 significant bits (round to nearest, ties to      *)
(* even).  size_t arithmetic is modular.                                   *)
(***************************************************************************)
EXTENDS Integers, Sequences, FiniteSets, TLC

-----------------------------------------------------------------------------
(* Bounds of the model *)

\* largest per-channel input length drawn by the engines
MaxLen == 5
\* largest grain size (in per-channel samples) drawn by the engines
MaxGrain == 2
\* largest crossfade size (in per-channel samples) drawn by the engines
MaxFade == 3
\* largest per-channel input length drawn by TimeAdjust
MaxSrc == 8
\* largest per-channel sample position drawn for a direct fractional read
MaxPos == 6
\* largest per-channel input length drawn by the dynamic engine
MaxDynLen == 4
\* width of size_t in the model (the arithmetic is the source's, modulo 2^SizeBits)
SizeBits == 12

-----------------------------------------------------------------------------
(* float *)

SizeMod == 2^SizeBits
SizeMax == SizeMod - 1

Max(a, b) == IF a >= b THEN a ELSE b

\* the float that is not a number (0.0f / 0.0f)
NaN == [m |-> -1, e |-> 0]
IsNaN(a) == a.m < 0

\* canonical form of the value m / 2^e
RECURSIVE Norm(_, _)
Norm(m, e) ==
  IF m = 0 THEN [m |-> 0, e |-> 0]
  ELSE IF e > 0 /\ m % 2 = 0 THEN Norm(m \div 2, e - 1)
  ELSE IF e < 0 THEN Norm(m * 2, e + 1)
  ELSE [m |-> m, e |-> e]

\* how many low bits m has beyond the 24 bits of a float's significand
RECURSIVE ExtraBits(_)
ExtraBits(m) == IF m < 2^24 THEN 0 ELSE 1 + ExtraBits(m \div 2)

\* the float nearest to m / 2^e, ties to even
F32Round(m, e) ==
  LET s == ExtraBits(m)
      q == m \div (2^s)
      r == m % (2^s)
      half == IF s = 0 THEN 1 ELSE 2^(s - 1)
      up == r > half \/ (r = half /\ q % 2 = 1)
  IN  IF s = 0 THEN Norm(m, e)
      ELSE Norm(IF up THEN q + 1 ELSE q, e - s)

\* static_cast<float>(n) of an unsigned integer n
F32FromInt(n) == F32Round(n, 0)

F32Mul(a, b) ==
  IF IsNaN(a) \/ IsNaN(b) THEN NaN ELSE F32Round(a.m * b.m, a.e + b.e)

F32Add(a, b) ==
  IF IsNaN(a) \/ IsNaN(b) THEN NaN
  ELSE LET e == Max(a.e, b.e)
       IN  F32Round(a.m * 2^(e - a.e) + b.m * 2^(e - b.e), e)

\* a - b for a >= b
F32Sub(a, b) ==
  IF IsNaN(a) \/ IsNaN(b) THEN NaN
  ELSE LET e == Max(a.e, b.e)
       IN  F32Round(a.m * 2^(e - a.e) - b.m * 2^(e - b.e), e)

\* long division: quot and rem of (p * 2^e) / q, e raised until quot has 24
\* significant bits
RECURSIVE LongDiv(_, _, _, _)
LongDiv(quot, rem, q, e) ==
  IF quot >= 2^23 THEN [quot |-> quot, rem |-> rem, e |-> e]
  ELSE LongDiv(2 * quot + (IF 2 * rem >= q THEN 1 ELSE 0), (2 * rem) % q, q, e + 1)

\* the float nearest to the quotient p / q of two integers
F32DivInt(p, q) ==
  IF q = 0 THEN NaN
  ELSE IF p = 0 THEN [m |-> 0, e |-> 0]
  ELSE LET d == LongDiv(p \div q, p % q, q, 0)
           up == 2 * d.rem > q \/ (2 * d.rem = q /\ d.quot % 2 = 1)
       IN  F32Round(IF up THEN d.quot + 1 ELSE d.quot, d.e)

F32Div(a, b) ==
  IF IsNaN(a) \/ IsNaN(b) THEN NaN
  ELSE F32DivInt(a.m * 2^(b.e), b.m * 2^(a.e))

F32Less(a, b) ==
  /\ ~IsNaN(a)
  /\ ~IsNaN(b)
  /\ LET e == Max(a.e, b.e) IN a.m * 2^(e - a.e) < b.m * 2^(e - b.e)

F32LessEq(a, b) ==
  /\ ~IsNaN(a)
  /\ ~IsNaN(b)
  /\ LET e == Max(a.e, b.e) IN a.m * 2^(e - a.e) <= b.m * 2^(e - b.e)

\* size_t(a) of a finite non-negative float: truncation
F32Trunc(a) == a.m \div (2^(a.e))

\* a - std::floor(a)
F32Frac(a) == IF IsNaN(a) THEN NaN ELSE Norm(a.m % (2^(a.e)), a.e)

\* the float literals of the source
F1p0 == [m |-> 1, e |-> 0]
F2p0 == [m |-> 2, e |-> 0]
F0p5 == [m |-> 1, e |-> 1]
F0p4 == Norm(13421773, 25)
F0p7 == Norm(11744051, 24)
F1p3 == Norm(10905190, 23)
F2p1 == Norm(8808038, 22)


-----------------------------------------------------------------------------
(* Inputs drawn by the model *)

\* 1.0f / 0.7f, the pitch multiplier of out_C_High
F1d0p7 == F32Div(F1p0, F0p7)

\* timeMultiplier arguments of TimeAdjust and GranularTimePitchAdjust in main
TimeMults == {F0p4, F0p7, F1p0, F1p3, F2p1}
\* pitchMultiplier arguments: exact halves and a rounded quotient
PitchMults == {F0p5, F1p0, F1d0p7, F2p0}
\* what a settingsCallback may return for a grain: <<timeMultiplier, pitchMultiplier>>
DynSettings == {<<F0p5, F1p0>>, <<F1p0, F2p0>>, <<F2p0, F1p0>>}
\* channel counts accepted by ReadWaveFile
Channels == {1, 2}

\* values size_t(x) may take when x is NaN or negative (the conversion is undefined)
UndefinedSizeT == {0, SizeMod \div 2, SizeMax}

\* the scenario of the specification: 100 mono samples, grain 10, crossfade 2,
\* timeMultiplier 2.0, pitchMultiplier 1.0
Scenario ==
  [numChannels |-> 1, numInputSamples |-> 100, timeMultiplier |-> F2p0,
   pitchMultiplier |-> F1p0, grainSizeSamples |-> 10, crossFadeSizeSamples |-> 2]

FixedArgs ==
  [numChannels : Channels, numInputSamples : 1..MaxLen, timeMultiplier : TimeMults,
   pitchMultiplier : PitchMults, grainSizeSamples : 1..MaxGrain,
   crossFadeSizeSamples : 0..MaxFade] \cup {Scenario}

-----------------------------------------------------------------------------
(* SampleChannelFractional *)

\* ClampIndex without the std::min
ClampIndexUnclamped(index, size) == index

\* std::min(index, input.size() - 1) on size_t
ClampIndex(index, size) ==
  LET last == (size - 1) % SizeMod IN IF index < last THEN index ELSE last

\* the four interleaved offsets read for the size_t value sample
SampleTaps(size, sample, channel, numChannels) ==
  LET neg1 == IF sample > 0 THEN sample - 1 ELSE sample
      Off(s) == ((s % SizeMod) * numChannels + channel) % SizeMod
  IN  [A |-> ClampIndex(Off(neg1), size),
       B |-> ClampIndex(Off(sample), size),
       C |-> ClampIndex(Off(sample + 1), size),
       D |-> ClampIndex(Off(sample + 2), size)]

\* a*t^3 + b*t^2 + c*t + d over the symbolic samples input[A..D]: the value is
\* kept as the taps and t; at t = 0 every product is 0 and the value is input[B]
CubicHermite(A, B, C, D, t) == [A |-> A, B |-> B, C |-> C, D |-> D, t |-> t]

\* the read for a position whose size_t conversion gave sample
SampleAt(size, sample, sampleFraction, channel, numChannels) ==
  LET i == SampleTaps(size, sample, channel, numChannels)
  IN  CubicHermite(i.A, i.B, i.C, i.D, sampleFraction)

\* the read for a finite non-negative position
SampleChannelFractional(size, sampleFloat, channel, numChannels) ==
  SampleAt(size, F32Trunc(sampleFloat), F32Frac(sampleFloat), channel, numChannels)

\* the value v is exactly the stored sample input[i]
IsSample(v, i) == v.B = i /\ v.t = [m |-> 0, e |-> 0]

-----------------------------------------------------------------------------
(* TimeAdjust *)

\* the integer nearest to a float, halves away from zero (std::round)
NearestInt(a) == (2 * a.m + 2^(a.e)) \div (2^(a.e + 1))

\* ScaledLength rounding to nearest instead of truncating
ScaledLengthRounded(numSamples, multiplier) ==
  NearestInt(F32Mul(F32FromInt(numSamples), multiplier))

\* numOutSamples = (size_t)(float(numSrcSamples) * timeMultiplier)
ScaledLength(numSamples, multiplier) ==
  F32Trunc(F32Mul(F32FromInt(numSamples), multiplier))

\* srcSampleFloat for output frame outSample
SrcSampleFloat(numSrcSamples, numOutSamples, outSample) ==
  LET percent == F32Div(F32FromInt(outSample),
                        F32FromInt((numOutSamples - 1) % SizeMod))
  IN  F32Mul(F32FromInt(numSrcSamples), percent)

\* what an output slot holds: the value that was added, the envelope it was
\* multiplied by, and the kind of write that added it
Term(value, envelope, crossFade) ==
  [value |-> value, envelope |-> envelope, crossFade |-> crossFade]

\* the output buffer TimeAdjust produces; undef is the size_t a NaN position
\* converts to
TimeAdjustOutput(numSrcSamples, numOutSamples, numCh, undef) ==
  [i \in 0..(numOutSamples * numCh - 1) |->
     LET outSample == i \div numCh
         channel == i % numCh
         srcSampleFloat == SrcSampleFloat(numSrcSamples, numOutSamples, outSample)
         value == IF IsNaN(srcSampleFloat)
                  THEN SampleAt(numSrcSamples * numCh, undef, NaN, channel, numCh)
                  ELSE SampleChannelFractional(numSrcSamples * numCh, srcSampleFloat,
                                               channel, numCh)
     IN  {Term(value, F1p0, "None")}]

-----------------------------------------------------------------------------
(* SplatGrainToOutput *)

\* the envelope of the frame at grain offset sample
Envelope(crossFade, sample, crossFadeSize) ==
  LET ramp == IF F32LessEq(sample, F32FromInt(crossFadeSize))
              THEN F32Div(sample, F32FromInt(crossFadeSize))
              ELSE F1p0
  IN  IF crossFade = "None" THEN F1p0
      ELSE IF crossFade = "Out" THEN F32Sub(F1p0, ramp)
      ELSE ramp

\* outputIndex + numChannels > output->size()
OutputFull(outputIndex, numCh, outputSize) == outputIndex + numCh > outputSize

\* InputExhausted without the frame's own numChannels samples
InputExhaustedLate(inputIndexSamples, numCh, inputSize) ==
  F32Trunc(inputIndexSamples) * numCh > inputSize

\* size_t(inputIndexSamples) * numChannels + numChannels > input.size()
InputExhausted(inputIndexSamples, numCh, inputSize) ==
  F32Trunc(inputIndexSamples) * numCh + numCh > inputSize

\* the loop of SplatGrainToOutput from grain offset sample on, n frames written
RECURSIVE SplatLoop(_, _, _, _, _)
SplatLoop(a, sample, n, out, reads) ==
  LET outputIndex == (a.outputSampleIndex + n) * a.numChannels
      inputIndexSamples == F32Add(F32FromInt(a.grainStart), sample)
      envelope == Envelope(a.crossFade, sample, a.crossFadeSize)
      stop == [written |-> n, output |-> out, reads |-> reads]
  IN  IF ~F32Less(sample, F32FromInt(a.grainSize)) THEN stop
      ELSE IF OutputFull(outputIndex, a.numChannels, a.outputSize) THEN stop
      ELSE IF InputExhausted(inputIndexSamples, a.numChannels, a.inputSize) THEN stop
      ELSE SplatLoop(a, F32Add(sample, a.pitchMultiplier), n + 1,
             [i \in DOMAIN out |->
                IF i >= outputIndex /\ i < outputIndex + a.numChannels
                THEN out[i] \cup
                     {Term(SampleChannelFractional(a.inputSize, inputIndexSamples,
                                                   i - outputIndex, a.numChannels),
                           envelope, a.crossFade)}
                ELSE out[i]],
             reads \cup {F32Trunc(inputIndexSamples)})

\* CrossFadeTooLong with the final-grain test inverted
CrossFadeTooLongOnFinal(isFinalGrain, crossFadeSize, numSamplesWritten) ==
  isFinalGrain /\ crossFadeSize > numSamplesWritten

\* !isFinalGrain && crossFadeSize > numSamplesWritten
CrossFadeTooLong(isFinalGrain, crossFadeSize, numSamplesWritten) ==
  ~isFinalGrain /\ crossFadeSize > numSamplesWritten

\* PrintsError without the test of the static flag
PrintsErrorAlways(reported) == TRUE

\* the message is printed when the static flag is still clear
PrintsError(reported) == ~reported

-----------------------------------------------------------------------------
(* State *)

VARIABLES
  pc,                       \* where the running operation is
  op,                       \* the operation that runs or ran last
  numChannels,              \* its arguments and locals, named as in the source
  numInputSamples,
  numOutputSamples,
  output,
  grainSizeSamples,
  numGrains,
  crossFadeSizeSamples,
  timeMultiplier,
  pitchMultiplier,
  settingsCallback,         \* grain -> <<timeMultiplier, pitchMultiplier>>
  grain,
  outputSampleIndex,
  lastGrainWritten,
  lastGrainPitchMultiplier,
  outputSampleWindowEnd,
  reportedError,            \* the static flag of SplatGrainToOutput
  printed,                  \* how many times the message was printed
  calls,                    \* the SplatGrainToOutput calls of this run
  engineRuns,               \* engine runs started in this process: 0, 1, or 2 for more
  lastRead                  \* arguments and taps of the last direct fractional read

vars ==
  <<pc, op, numChannels, numInputSamples, numOutputSamples, output,
    grainSizeSamples, numGrains, crossFadeSizeSamples, timeMultiplier,
    pitchMultiplier, settingsCallback, grain, outputSampleIndex,
    lastGrainWritten, lastGrainPitchMultiplier, outputSampleWindowEnd,
    reportedError, printed, calls, engineRuns, lastRead>>

NoRead == [size |-> 0, channel |-> 0, numChannels |-> 0, sample |-> 0,
           A |-> 0, B |-> 0, C |-> 0, D |-> 0]

Init ==
  /\ pc = "idle"
  /\ op = "none"
  /\ numChannels = 1
  /\ numInputSamples = 0
  /\ numOutputSamples = 0
  /\ output = << >>
  /\ grainSizeSamples = 0
  /\ numGrains = 0
  /\ crossFadeSizeSamples = 0
  /\ timeMultiplier = F1p0
  /\ pitchMultiplier = F1p0
  /\ settingsCallback = << >>
  /\ grain = 0
  /\ outputSampleIndex = 0
  /\ lastGrainWritten = SizeMax
  /\ lastGrainPitchMultiplier = F1p0
  /\ outputSampleWindowEnd = 0
  /\ reportedError = FALSE
  /\ printed = 0
  /\ calls = {}
  /\ engineRuns = 0
  /\ lastRead = NoRead

\* main is between two operations
Idle == pc = "idle"

\* the locals of the engines, as they are when no engine runs
ClearEngine ==
  /\ grainSizeSamples' = 0
  /\ numGrains' = 0
  /\ crossFadeSizeSamples' = 0
  /\ pitchMultiplier' = F1p0
  /\ settingsCallback' = << >>
  /\ grain' = 0
  /\ outputSampleIndex' = 0
  /\ lastGrainWritten' = SizeMax
  /\ lastGrainPitchMultiplier' = F1p0
  /\ outputSampleWindowEnd' = 0
  /\ calls' = {}

\* main goes on to its next operation: the result was written to its file
\* and nothing of the operation remains but the static flag
NextOperation ==
  /\ pc = "done"
  /\ pc' = "idle"
  /\ op' = "none"
  /\ numChannels' = 1
  /\ numInputSamples' = 0
  /\ numOutputSamples' = 0
  /\ output' = << >>
  /\ timeMultiplier' = F1p0
  /\ lastRead' = NoRead
  /\ ClearEngine
  /\ UNCHANGED <<reportedError, printed, engineRuns>>

-----------------------------------------------------------------------------
(* A direct read of SampleChannelFractional and TimeAdjust *)

\* positions with a defined conversion: 0, 0.5, 1, ... MaxPos
ReadPositions == {Norm(h, 1) : h \in 0..(2 * MaxPos)}

ReadResult(size, sample, channel, numCh) ==
  LET i == SampleTaps(size, sample, channel, numCh)
  IN  [size |-> size, channel |-> channel, numChannels |-> numCh,
       sample |-> sample, A |-> i.A, B |-> i.B, C |-> i.C, D |-> i.D]

\* SampleChannelFractional(input, sampleFloat, channel, numChannels) at a
\* position that converts to size_t
ReadDefined ==
  /\ Idle
  /\ \E numCh \in Channels, n \in 1..MaxLen, p \in ReadPositions :
       \E channel \in 0..(numCh - 1) :
         lastRead' = ReadResult(n * numCh, F32Trunc(p), channel, numCh)
  /\ pc' = "done"
  /\ op' = "read"
  /\ numChannels' = 1
  /\ numInputSamples' = 0
  /\ numOutputSamples' = 0
  /\ output' = << >>
  /\ timeMultiplier' = F1p0
  /\ ClearEngine
  /\ UNCHANGED <<reportedError, printed, engineRuns>>

\* the same at a negative or NaN position, whose conversion is undefined
ReadUndefined ==
  /\ Idle
  /\ \E numCh \in Channels, n \in 1..MaxLen, sample \in UndefinedSizeT :
       \E channel \in 0..(numCh - 1) :
         lastRead' = ReadResult(n * numCh, sample, channel, numCh)
  /\ pc' = "done"
  /\ op' = "read"
  /\ numChannels' = 1
  /\ numInputSamples' = 0
  /\ numOutputSamples' = 0
  /\ output' = << >>
  /\ timeMultiplier' = F1p0
  /\ ClearEngine
  /\ UNCHANGED <<reportedError, printed, engineRuns>>

\* TimeAdjust(input, output, numChannels, timeMultiplier)
TimeAdjust ==
  /\ Idle
  /\ \E numCh \in Channels, n \in 1..MaxSrc, tm \in TimeMults, undef \in UndefinedSizeT :
       LET numOutSamples == ScaledLength(n, tm)
           out == TimeAdjustOutput(n, numOutSamples, numCh, undef)
       IN  \* undef matters only when a position is NaN
           /\ undef = 0 \/ numOutSamples = 1
           /\ numChannels' = numCh
           /\ numInputSamples' = n
           /\ numOutputSamples' = numOutSamples
           /\ timeMultiplier' = tm
           /\ output' = out
  /\ pc' = "done"
  /\ op' = "resample"
  /\ ClearEngine
  /\ UNCHANGED <<reportedError, printed, engineRuns, lastRead>>

-----------------------------------------------------------------------------
(* The granular engines *)

\* numGrains = numInputSamples / grainSizeSamples, one more for a remainder
GrainCount(numSamples, grainSize) ==
  (numSamples \div grainSize) + (IF numSamples % grainSize # 0 THEN 1 ELSE 0)

\* the first pass of the dynamic engine: the per-channel output length
RECURSIVE DynamicOutputLength(_, _, _, _, _)
DynamicOutputLength(i, grains, grainSize, inputSize, callback) ==
  IF i >= grains THEN 0
  ELSE LET grainStart == i * grainSize
           grainEnd == IF grainStart + grainSize < inputSize
                       THEN grainStart + grainSize ELSE inputSize
       IN  ScaledLength(grainEnd - grainStart, callback[i][1])
           + DynamicOutputLength(i + 1, grains, grainSize, inputSize, callback)

ZeroOutput(size) == [i \in 0..(size - 1) |-> {}]

Bump(n) == IF n < 2 THEN n + 1 ELSE n

\* GranularTimePitchAdjust up to the grain loop
GranularTimePitchAdjust ==
  /\ Idle
  /\ \E a \in FixedArgs :
       /\ numChannels' = a.numChannels
       /\ numInputSamples' = a.numInputSamples
       /\ numOutputSamples' = ScaledLength(a.numInputSamples, a.timeMultiplier)
       /\ output' = ZeroOutput(ScaledLength(a.numInputSamples, a.timeMultiplier)
                               * a.numChannels)
       /\ grainSizeSamples' = a.grainSizeSamples
       /\ numGrains' = GrainCount(a.numInputSamples, a.grainSizeSamples)
       /\ crossFadeSizeSamples' = a.crossFadeSizeSamples
       /\ timeMultiplier' = a.timeMultiplier
       /\ pitchMultiplier' = a.pitchMultiplier
  /\ settingsCallback' = << >>
  /\ grain' = 0
  /\ outputSampleIndex' = 0
  /\ lastGrainWritten' = SizeMax
  /\ lastGrainPitchMultiplier' = F1p0
  /\ outputSampleWindowEnd' = 0
  /\ calls' = {}
  /\ engineRuns' = Bump(engineRuns)
  /\ pc' = "for"
  /\ op' = "fixed"
  /\ UNCHANGED <<reportedError, printed, lastRead>>

\* GranularTimePitchAdjustDynamic up to the grain loop
GranularTimePitchAdjustDynamic ==
  /\ Idle
  /\ \E numCh \in Channels, n \in 1..MaxDynLen, gs \in 1..MaxGrain,
        cf \in 0..MaxFade :
       \E callback \in [0..(GrainCount(n, gs) - 1) -> DynSettings] :
         LET len == DynamicOutputLength(0, GrainCount(n, gs), gs, n * numCh, callback)
         IN  /\ numChannels' = numCh
             /\ numInputSamples' = n
             /\ numOutputSamples' = len
             /\ output' = ZeroOutput(len * numCh)
             /\ grainSizeSamples' = gs
             /\ numGrains' = GrainCount(n, gs)
             /\ crossFadeSizeSamples' = cf
             /\ settingsCallback' = callback
  /\ timeMultiplier' = F1p0
  /\ pitchMultiplier' = F1p0
  /\ grain' = 0
  /\ outputSampleIndex' = 0
  /\ lastGrainWritten' = SizeMax
  /\ lastGrainPitchMultiplier' = F1p0
  /\ outputSampleWindowEnd' = 0
  /\ calls' = {}
  /\ engineRuns' = Bump(engineRuns)
  /\ pc' = "for"
  /\ op' = "dynamic"
  /\ UNCHANGED <<reportedError, printed, lastRead>>

\* WindowEnd without the time multiplier
WindowEndUnscaled(inputGrainStart, grainSize, multiplier) ==
  inputGrainStart + grainSize

\* the end of the output window of a grain of the fixed engine
WindowEnd(inputGrainStart, grainSize, multiplier) ==
  F32Trunc(F32Mul(F32FromInt(inputGrainStart + grainSize), multiplier))

\* for (grain ...): the head of the grain loop, grain < numGrains
ForGrain ==
  /\ pc = "for"
  /\ grain < numGrains
  /\ IF op = "fixed"
     THEN /\ outputSampleWindowEnd' =
               WindowEnd(grain * grainSizeSamples, grainSizeSamples, timeMultiplier)
          /\ UNCHANGED <<timeMultiplier, pitchMultiplier>>
     ELSE /\ timeMultiplier' = settingsCallback[grain][1]
          /\ pitchMultiplier' = settingsCallback[grain][2]
          /\ outputSampleWindowEnd' =
               outputSampleWindowEnd
               + ScaledLength(grainSizeSamples, settingsCallback[grain][1])
  /\ pc' = "while"
  /\ UNCHANGED <<op, numChannels, numInputSamples, numOutputSamples, output,
                 grainSizeSamples, numGrains, crossFadeSizeSamples,
                 settingsCallback, grain, outputSampleIndex, lastGrainWritten,
                 lastGrainPitchMultiplier, reportedError, printed, calls,
                 engineRuns, lastRead>>

\* the grain loop is over: the engine returns
Return ==
  /\ pc = "for"
  /\ grain >= numGrains
  /\ pc' = "done"
  /\ UNCHANGED <<op, numChannels, numInputSamples, numOutputSamples, output,
                 grainSizeSamples, numGrains, crossFadeSizeSamples, timeMultiplier,
                 pitchMultiplier, settingsCallback, grain, outputSampleIndex,
                 lastGrainWritten, lastGrainPitchMultiplier, outputSampleWindowEnd,
                 reportedError, printed, calls, engineRuns, lastRead>>

\* while (outputSampleIndex < outputSampleWindowEnd) is false: next grain
EndWhile ==
  /\ pc = "while"
  /\ ~(outputSampleIndex < outputSampleWindowEnd)
  /\ grain' = grain + 1
  /\ pc' = "for"
  /\ UNCHANGED <<op, numChannels, numInputSamples, numOutputSamples, output,
                 grainSizeSamples, numGrains, crossFadeSizeSamples, timeMultiplier,
                 pitchMultiplier, settingsCallback, outputSampleIndex,
                 lastGrainWritten, lastGrainPitchMultiplier, outputSampleWindowEnd,
                 reportedError, printed, calls, engineRuns, lastRead>>

\* (lastGrainWritten == -1) || (lastGrainWritten == grain - 1)
NoCrossFadeNeeded(last, g) == last = SizeMax \/ last = (g - 1) % SizeMod

\* IsFinalGrain comparing with the grain count itself, which no grain equals
IsFinalGrainPastEnd(g, grains) == g = grains % SizeMod

\* bool isFinalGrain = (grain == numGrains - 1)
IsFinalGrain(g, grains) == g = (grains - 1) % SizeMod

\* the arguments of one SplatGrainToOutput call of the engine
SplatArgs(grainStart, crossFade, pitch) ==
  [numChannels |-> numChannels, inputSize |-> numInputSamples * numChannels,
   outputSize |-> numOutputSamples * numChannels, grainStart |-> grainStart,
   grainSize |-> grainSizeSamples, outputSampleIndex |-> outputSampleIndex,
   crossFade |-> crossFade, crossFadeSize |-> crossFadeSizeSamples,
   pitchMultiplier |-> pitch, isFinalGrain |-> IsFinalGrain(grain, numGrains)]

\* SplatGrainToOutput(a): the frames are added to output, the flag and the
\* message follow; r is what the loop returns
SplatGrainToOutput(a, r) ==
  /\ r = SplatLoop(a, [m |-> 0, e |-> 0], 0, output, {})
  /\ output' = r.output
  /\ IF CrossFadeTooLong(a.isFinalGrain, a.crossFadeSize, r.written)
     THEN /\ reportedError' = TRUE
          /\ printed' = IF PrintsError(reportedError) THEN printed + 1 ELSE printed
     ELSE UNCHANGED <<reportedError, printed>>
  /\ calls' = calls \cup
       {[grain |-> grain, grainStart |-> a.grainStart, crossFade |-> a.crossFade,
         outputSampleIndex |-> a.outputSampleIndex,
         crossFadeSize |-> a.crossFadeSize, pitchMultiplier |-> a.pitchMultiplier,
         isFinalGrain |-> a.isFinalGrain, written |-> r.written,
         reads |-> r.reads, last |-> lastGrainWritten,
         reported |-> reportedError]}

\* the write of a grain that follows the last one written
WriteNone ==
  /\ pc = "while"
  /\ outputSampleIndex < outputSampleWindowEnd
  /\ NoCrossFadeNeeded(lastGrainWritten, grain)
  /\ \E r \in {SplatLoop(SplatArgs(grain * grainSizeSamples, "None", pitchMultiplier),
                         [m |-> 0, e |-> 0], 0, output, {})} :
       /\ SplatGrainToOutput(SplatArgs(grain * grainSizeSamples, "None",
                                       pitchMultiplier), r)
       /\ outputSampleIndex' = outputSampleIndex + r.written
  /\ lastGrainWritten' = grain
  /\ lastGrainPitchMultiplier' = IF op = "dynamic" THEN pitchMultiplier
                                 ELSE lastGrainPitchMultiplier
  /\ pc' = "while"
  /\ UNCHANGED <<op, numChannels, numInputSamples, numOutputSamples,
                 grainSizeSamples, numGrains, crossFadeSizeSamples, timeMultiplier,
                 pitchMultiplier, settingsCallback, grain, outputSampleWindowEnd,
                 engineRuns, lastRead>>

\* FadeOutStart fading out the last grain written itself
FadeOutStartSameGrain(last, grainSize) == ((last % SizeMod) * grainSize) % SizeMod

\* the grain after the last one written
FadeOutStart(last, grainSize) == (((last + 1) % SizeMod) * grainSize) % SizeMod

\* FadeOutPitch fading out with the pitch of the grain that fades in
FadeOutPitchOfNewGrain(operation, pitch, lastPitch) == pitch

\* the pitch the old grain is faded out with: lastGrainPitchMultiplier in the
\* dynamic engine, the one pitchMultiplier in the fixed engine
FadeOutPitch(operation, pitch, lastPitch) ==
  IF operation = "dynamic" THEN lastPitch ELSE pitch

\* the first write of a splice: the old grain fades out
WriteFadeOut ==
  /\ pc = "while"
  /\ outputSampleIndex < outputSampleWindowEnd
  /\ ~NoCrossFadeNeeded(lastGrainWritten, grain)
  /\ \E a \in {SplatArgs(FadeOutStart(lastGrainWritten, grainSizeSamples), "Out",
                         FadeOutPitch(op, pitchMultiplier, lastGrainPitchMultiplier))} :
       \E r \in {SplatLoop(a, [m |-> 0, e |-> 0], 0, output, {})} :
         SplatGrainToOutput(a, r)
  /\ pc' = "fadeIn"
  /\ UNCHANGED <<op, numChannels, numInputSamples, numOutputSamples,
                 grainSizeSamples, numGrains, crossFadeSizeSamples, timeMultiplier,
                 pitchMultiplier, settingsCallback, grain, outputSampleIndex,
                 lastGrainWritten, lastGrainPitchMultiplier, outputSampleWindowEnd,
                 engineRuns, lastRead>>

\* the second write of a splice: the new grain fades in
WriteFadeIn ==
  /\ pc = "fadeIn"
  /\ \E a \in {SplatArgs(grain * grainSizeSamples, "In", pitchMultiplier)} :
       \E r \in {SplatLoop(a, [m |-> 0, e |-> 0], 0, output, {})} :
         /\ SplatGrainToOutput(a, r)
         /\ outputSampleIndex' = outputSampleIndex + r.written
  /\ lastGrainWritten' = grain
  /\ lastGrainPitchMultiplier' = IF op = "dynamic" THEN pitchMultiplier
                                 ELSE lastGrainPitchMultiplier
  /\ pc' = "while"
  /\ UNCHANGED <<op, numChannels, numInputSamples, numOutputSamples,
                 grainSizeSamples, numGrains, crossFadeSizeSamples, timeMultiplier,
                 pitchMultiplier, settingsCallback, grain, outputSampleWindowEnd,
                 engineRuns, lastRead>>

Next ==
  \/ NextOperation
  \/ ReadDefined
  \/ ReadUndefined
  \/ TimeAdjust
  \/ GranularTimePitchAdjust
  \/ GranularTimePitchAdjustDynamic
  \/ ForGrain
  \/ Return
  \/ EndWhile
  \/ WriteNone
  \/ WriteFadeOut
  \/ WriteFadeIn

Spec == Init /\ [][Next]_vars

-----------------------------------------------------------------------------
(* Properties *)

EngineRun == op \in {"fixed", "dynamic"}
\* the state of the loop from which the cursor no longer moves: the condition
\* of the while holds, the grain is the last one written, and the fade-in
\* write of this grain at this cursor wrote nothing
Stuck ==
  /\ pc = "while"
  /\ outputSampleIndex < outputSampleWindowEnd
  /\ lastGrainWritten = grain
  /\ \E c \in calls :
       /\ c.crossFade = "In"
       /\ c.grain = grain
       /\ c.outputSampleIndex = outputSampleIndex
       /\ c.written = 0

\* C1: every call of the granular engines terminates: for every grain the
\* loop 'while outputSampleIndex < outputSampleWindowEnd' exits and the run
\* reaches its end.  In a Stuck state lastGrainWritten = grain, so the next
\* iteration takes the cross-fade branch and makes the fade-in call with
\* the same grain start and the same cursor.  That call wrote nothing
\* because one of the two bounds tests failed at the first frame; the tests
\* read only the buffer sizes, the grain start and the cursor, none of
\* which a write changes, so the call writes nothing again (the fade-out
\* call of the iteration may differ, it does not move the cursor).  The
\* cursor stays below the window end and the loop never exits.  Conversely
\* a run that does not end reaches such a state, the cursor being bounded
\* by the output length.  So every run terminates exactly when no Stuck
\* state is reached.
C1_EveryRunTerminates == ~Stuck

\* C2: every SplatGrainToOutput call ends inside the output
\* (outputSampleIndex + written <= per-channel output length, the buffer
\* keeping its length) and every frame it reads has its base position inside
\* the input
C2_WriterStaysInBounds ==
  EngineRun =>
    /\ DOMAIN output = 0..(numOutputSamples * numChannels - 1)
    /\ \A c \in calls :
         /\ c.outputSampleIndex + c.written <= numOutputSamples
         /\ \A position \in c.reads : position < numInputSamples

\* a pitch-shifted write that was cut short by the end of the output, and one
\* that read the last input frame
C2_Witness ==
  /\ EngineRun
  /\ \E c \in calls :
       /\ c.pitchMultiplier = F0p5
       /\ c.written > 0
       /\ c.written < 2 * grainSizeSamples
       /\ c.outputSampleIndex + c.written = numOutputSamples
  /\ \E c \in calls :
       /\ c.pitchMultiplier # F1p0
       /\ (numInputSamples - 1) \in c.reads

\* the run is the scenario of the specification
IsScenario ==
  /\ op = "fixed"
  /\ numChannels = Scenario.numChannels
  /\ numInputSamples = Scenario.numInputSamples
  /\ grainSizeSamples = Scenario.grainSizeSamples
  /\ crossFadeSizeSamples = Scenario.crossFadeSizeSamples
  /\ timeMultiplier = Scenario.timeMultiplier
  /\ pitchMultiplier = Scenario.pitchMultiplier

\* the kind and the output offset of every call that satisfies P
Writes(P(_)) ==
  {<<c.crossFade, c.outputSampleIndex>> : c \in {d \in calls : P(d)}}

\* C3: the scenario (100 mono samples, grain 10, crossfade 2, timeMultiplier
\* 2.0, pitchMultiplier 1.0) finishes with 200 output samples; grain 0 is
\* written exactly twice, with fade mode None at offset 0 and, after a
\* fade-Out write at offset 10, with fade mode In at that same offset 10; no
\* call of the run sets the warning flag
C3_Scenario ==
  IsScenario =>
    /\ \A c \in calls :
         ~CrossFadeTooLong(c.isFinalGrain, c.crossFadeSize, c.written)
    /\ engineRuns = 1 => ~reportedError /\ printed = 0
    /\ pc = "done" =>
         /\ numOutputSamples = 200
         /\ DOMAIN output = 0..199
         /\ Writes(LAMBDA c : c.grain = 0) =
              {<<"None", 0>>, <<"Out", 10>>, <<"In", 10>>}
         /\ Writes(LAMBDA c : c.grainStart = 0) = {<<"None", 0>>, <<"In", 10>>}
         /\ \A c \in calls : c.grain = 0 => c.written = 10

\* the scenario has run to its end
C3_Witness == IsScenario /\ pc = "done" /\ engineRuns = 1 /\ outputSampleIndex = 200

\* C4: the warning is printed at most once per process: once the flag is set
\* no step clears it or prints the message, and a step that prints the
\* message sets the flag
C4_WarnedOnce ==
  [][/\ reportedError => reportedError' /\ printed' = printed
     /\ printed' # printed => ~reportedError /\ reportedError' /\ printed' = 1]_vars

\* a later engine run of the process made an offending write with the flag
\* already set
C4_Witness ==
  /\ engineRuns = 2
  /\ printed = 1
  /\ \E c \in calls :
       /\ c.reported
       /\ CrossFadeTooLong(c.isFinalGrain, c.crossFadeSize, c.written)

\* the first engine run of the process, fixed parameters, with a crossfade
\* longer than the grain and at least one non-final grain
LongFadeRun ==
  /\ op = "fixed"
  /\ engineRuns = 1
  /\ crossFadeSizeSamples > grainSizeSamples
  /\ numGrains >= 2

\* C5 as stated: such a run, whatever its time and pitch multipliers, has
\* printed the warning exactly once when it ends
C5_WarnsExactlyOnce == LongFadeRun /\ pc = "done" => printed = 1

\* some non-final grain has a non-empty output window
NonFinalWindow ==
  WindowEnd((numGrains - 2) * grainSizeSamples, grainSizeSamples, timeMultiplier) >= 1

\* C5 amended: such a run whose pitch multiplier is at least 1 and in which
\* some non-final grain has a non-empty output window prints the warning
\* exactly once, at its first SplatGrainToOutput call
C5_WarnsOnceFromFirstWrite ==
  LongFadeRun /\ F32LessEq(F1p0, pitchMultiplier) /\ NonFinalWindow =>
    /\ printed = (IF calls = {} THEN 0 ELSE 1)
    /\ pc = "done" => printed = 1

\* such a run has ended after several offending writes
C5_Witness ==
  /\ LongFadeRun
  /\ F32LessEq(F1p0, pitchMultiplier)
  /\ NonFinalWindow
  /\ pc = "done"
  /\ printed = 1
  /\ Cardinality({c \in calls :
       CrossFadeTooLong(c.isFinalGrain, c.crossFadeSize, c.written)}) >= 3

HoldsSample(slot, i) ==
  \E t \in slot :
    /\ IsSample(t.value, i)
    /\ t.envelope = F1p0
    /\ \A u \in slot \ {t} : u.envelope = [m |-> 0, e |-> 0]

\* C7: with timeMultiplier 1.0 and pitchMultiplier 1.0 the fixed engine
\* issues no fade-Out or fade-In write, and when it ends each grain was
\* written exactly once, with fade mode None, and every output sample is the
\* input sample at the same offset
C7_IdentityRun ==
  op = "fixed" /\ timeMultiplier = F1p0 /\ pitchMultiplier = F1p0 =>
    /\ \A c \in calls : c.crossFade = "None"
    /\ pc = "done" =>
         /\ \A g \in 0..(numGrains - 1) :
              Cardinality({c \in calls : c.grain = g}) = 1
         /\ DOMAIN output = 0..(numInputSamples * numChannels - 1)
         /\ \A i \in DOMAIN output : HoldsSample(output[i], i)

\* C8: TimeAdjust with timeMultiplier 1.0 is the identity: the output has
\* the length of the input and every output sample is read at exactly its
\* own position, so it is the input sample at the same offset
C8_ResampleIdentity ==
  op = "resample" /\ timeMultiplier = F1p0 =>
    /\ numOutputSamples = numInputSamples
    /\ DOMAIN output = 0..(numInputSamples * numChannels - 1)
    /\ \A i \in DOMAIN output : HoldsSample(output[i], i)

\* the four taps of a read are offsets of the buffer
TapsInside(t, size) ==
  \A i \in {t.A, t.B, t.C, t.D} : 0 <= i /\ i <= size - 1

\* C9: every tap SampleChannelFractional reads is at an interleaved offset
\* in [0, buffer length - 1]: in a direct read at any position, defined or
\* not, and in every read made by TimeAdjust and by SplatGrainToOutput
C9_TapsInBounds ==
  /\ op = "read" => TapsInside(lastRead, lastRead.size)
  /\ op \in {"resample", "fixed", "dynamic"} =>
       \A i \in DOMAIN output : \A t \in output[i] :
         TapsInside(t.value, numInputSamples * numChannels)

\* a direct read beyond the end of the buffer, all of whose taps were clamped
C9_Witness ==
  /\ op = "read"
  /\ lastRead.sample * lastRead.numChannels >= lastRead.size
  /\ lastRead.numChannels = 2
  /\ lastRead.A = lastRead.size - 1
  /\ lastRead.D = lastRead.size - 1

\* the splice rule on the calls made so far
SpliceRule(cs, gs) ==
  \A c \in cs :
    /\ c.crossFade = "None" <=> (c.last = SizeMax \/ c.last = c.grain - 1)
    /\ c.crossFade # "None" =>
         /\ c.last = c.grain \/ c.last < c.grain - 1
         /\ c.grainStart = (IF c.crossFade = "Out" THEN c.last + 1 ELSE c.grain) * gs
    /\ c.crossFade = "None" => c.grainStart = c.grain * gs
    /\ c.crossFade = "In" =>
         \E o \in cs :
           /\ o.crossFade = "Out"
           /\ o.grain = c.grain
           /\ o.last = c.last
           /\ o.outputSampleIndex = c.outputSampleIndex
           /\ o.crossFadeSize = c.crossFadeSize

\* C10: a write of grain g uses fade mode None exactly when no grain was
\* written yet or lastGrainWritten = g-1; otherwise (lastGrainWritten = g or
\* lastGrainWritten < g-1) the engine makes a fade-Out write of grain
\* lastGrainWritten+1 and then a fade-In write of grain g at the same output
\* offset with the same crossfade size; the cursor does not move with the
\* fade-Out write and advances by what the other writes return; after a
\* None or fade-In write lastGrainWritten = g
C10_SpliceRule ==
  [][/\ SpliceRule(calls', grainSizeSamples')
     /\ pc = "while" /\ pc' = "fadeIn" =>
          /\ outputSampleIndex' = outputSampleIndex
          /\ lastGrainWritten' = lastGrainWritten
          /\ \E c \in calls' :
               /\ c.crossFade = "Out"
               /\ c.grain = grain
               /\ c.last = lastGrainWritten
               /\ c.outputSampleIndex = outputSampleIndex
     /\ pc \in {"while", "fadeIn"} /\ pc' = "while" =>
          /\ lastGrainWritten' = grain
          /\ \E c \in calls' :
               /\ c.crossFade = (IF pc = "fadeIn" THEN "In" ELSE "None")
               /\ c.grain = grain
               /\ c.last = lastGrainWritten
               /\ c.outputSampleIndex = outputSampleIndex
               /\ outputSampleIndex' = outputSampleIndex + c.written]_vars

\* a run that repeated a grain and skipped a grain, each with a splice
C10_Witness ==
  /\ EngineRun
  /\ pc = "done"
  /\ \E c \in calls : c.crossFade = "In" /\ c.last = c.grain /\ c.written > 0
  /\ \E c \in calls : c.crossFade = "In" /\ c.last < c.grain - 1 /\ c.written > 0
  /\ \E c \in calls : c.crossFade = "Out" /\ c.written > 0

\* the calls made for the last grain index in which the crossfade is longer
\* than what was written
ShortFinalWrites ==
  {c \in calls : c.grain = numGrains - 1 /\ c.crossFadeSize > c.written}

\* C11: no SplatGrainToOutput call made while the engine is at the last
\* grain index (grain = numGrains - 1) sets the warning flag or prints the
\* message, whatever its fade mode and however few frames it writes; a step
\* that sets the flag is a call for another grain index whose crossfade size
\* is greater than the number of frames it wrote
C11_FinalGrainNeverWarns ==
  [][/\ pc \in {"while", "fadeIn"} /\ grain = numGrains - 1 =>
          reportedError' = reportedError /\ printed' = printed
     /\ reportedError' # reportedError =>
          /\ pc \in {"while", "fadeIn"}
          /\ grain # numGrains - 1
          /\ \E c \in calls' \ calls :
               /\ c.grain = grain
               /\ ~c.reported
               /\ c.crossFadeSize > c.written]_vars

\* a run of several grains made a None, a fade-Out and a fade-In write for
\* its last grain, each shorter than the crossfade, and the flag is clear
C11_Witness ==
  /\ EngineRun
  /\ numGrains >= 2
  /\ ~reportedError
  /\ printed = 0
  /\ \A m \in {"None", "Out", "In"} : \E c \in ShortFinalWrites : c.crossFade = m
  /\ \E c \in ShortFinalWrites : c.written > 0

\* the calls of fade mode m the engine made at this grain and cursor
CallsHere(cs, m) ==
  {c \in cs : /\ c.crossFade = m
               /\ c.grain = grain
               /\ c.last = lastGrainWritten
               /\ c.outputSampleIndex = outputSampleIndex}

\* C12: in the dynamic engine lastGrainPitchMultiplier is the pitch of the
\* most recent None or fade-In write (it changes with these writes only, to
\* the pitch they used); a fade-Out write, which always follows such a write,
\* uses it, and it is the callback's pitch for grain lastGrainWritten, not
\* the initial 1.0; the fade-In write of the same splice uses the callback's
\* pitch for the current grain
C12_FadeOutUsesPreviousPitch ==
  [][op = "dynamic" /\ op' = "dynamic" =>
       /\ pc = "while" /\ pc' = "fadeIn" =>
            /\ lastGrainWritten # SizeMax
            /\ lastGrainPitchMultiplier = settingsCallback[lastGrainWritten][2]
            /\ lastGrainPitchMultiplier' = lastGrainPitchMultiplier
            /\ CallsHere(calls', "Out") # {}
            /\ \A c \in CallsHere(calls', "Out") :
                 c.pitchMultiplier = lastGrainPitchMultiplier
       /\ pc \in {"while", "fadeIn"} /\ pc' = "while" =>
            LET m == IF pc = "fadeIn" THEN "In" ELSE "None"
            IN  /\ CallsHere(calls', m) # {}
                /\ \A c \in CallsHere(calls', m) :
                     /\ c.pitchMultiplier = settingsCallback[grain][2]
                     /\ lastGrainPitchMultiplier' = c.pitchMultiplier
       /\ ~(pc \in {"while", "fadeIn"} /\ pc' = "while") =>
            lastGrainPitchMultiplier' = lastGrainPitchMultiplier]_vars

\* a splice of the dynamic engine after a skipped grain, in which the grain
\* written last and the grain that fades in have different pitches, and both
\* writes of the splice wrote frames
C12_Witness ==
  /\ op = "dynamic"
  /\ \E o \in calls, i \in calls :
       /\ o.crossFade = "Out" /\ i.crossFade = "In"
       /\ o.grain = i.grain /\ o.outputSampleIndex = i.outputSampleIndex
       /\ o.last = i.last /\ o.last < o.grain - 1
       /\ o.written > 0 /\ i.written > 0
       /\ o.pitchMultiplier = settingsCallback[o.last][2]
       /\ i.pitchMultiplier = settingsCallback[i.grain][2]
       /\ o.pitchMultiplier # i.pitchMultiplier
       /\ o.pitchMultiplier # F1p0

\* the per-channel size of grain g: grainSize, less for a last grain that
\* the input cuts short
ActualGrainSize(g, numSamples, grainSize) ==
  IF (g + 1) * grainSize <= numSamples THEN grainSize
  ELSE numSamples - g * grainSize

\* the sum over the grains from g on of the grain's own time-scaled length
RECURSIVE ScaledLengthSum(_, _, _, _, _)
ScaledLengthSum(g, grains, numSamples, grainSize, callback) ==
  IF g >= grains THEN 0
  ELSE ScaledLength(ActualGrainSize(g, numSamples, grainSize), callback[g][1])
       + ScaledLengthSum(g + 1, grains, numSamples, grainSize, callback)

\* the second pass has added the window of the last grain
WindowsAccumulated ==
  \/ pc = "done"
  \/ pc \in {"while", "fadeIn"} /\ grain = numGrains - 1

\* C13: in the dynamic engine the per-channel output length allocated by the
\* first pass is the sum over all grains of the grain's own time-scaled
\* length (the actual per-channel grain size, shorter for the last grain,
\* times the callback's time multiplier, truncated), and it is the window
\* end the second pass has accumulated after the last grain
C13_DynamicLength ==
  op = "dynamic" =>
    /\ numOutputSamples =
         ScaledLengthSum(0, numGrains, numInputSamples, grainSizeSamples,
                         settingsCallback)
    /\ DOMAIN output = 0..(numOutputSamples * numChannels - 1)
    /\ WindowsAccumulated => outputSampleWindowEnd = numOutputSamples

\* C14: when the per-channel output length of TimeAdjust is exactly 1 no
\* division by zero occurs: the position of the single output frame is a
\* number, it is 0, and each output sample is the input sample of its channel
\* in frame 0
C14_SingleFrameOutput ==
  op = "resample" /\ numOutputSamples = 1 =>
    /\ ~IsNaN(SrcSampleFloat(numInputSamples, numOutputSamples, 0))
    /\ SrcSampleFloat(numInputSamples, numOutputSamples, 0) = [m |-> 0, e |-> 0]
    /\ DOMAIN output = 0..(numChannels - 1)
    /\ \A i \in DOMAIN output : HoldsSample(output[i], i)

\* the grain offset 'sample' of the k-th frame of a call: k additions of the
\* pitch multiplier to 0
RECURSIVE SampleOffset(_, _)
SampleOffset(k, pitch) ==
  IF k = 0 THEN [m |-> 0, e |-> 0] ELSE F32Add(SampleOffset(k - 1, pitch), pitch)

\* the two floats add up to exactly 1, as numbers
SumIsOne(a, b) ==
  /\ ~IsNaN(a)
  /\ ~IsNaN(b)
  /\ LET e == Max(a.e, b.e) IN a.m * 2^(e - a.e) + b.m * 2^(e - b.e) = 2^e

\* the fade-Out call of the splice whose fade-In call is i
FadeOutOf(i) ==
  {o \in calls : /\ o.crossFade = "Out"
                  /\ o.grain = i.grain
                  /\ o.last = i.last
                  /\ o.outputSampleIndex = i.outputSampleIndex}

\* the fade-In write covered its k-th frame with a fade-Out weight that
\* complements its own
Complemented(i, k) ==
  LET sample == SampleOffset(k, i.pitchMultiplier)
  IN  /\ \E o \in FadeOutOf(i) : o.written > k
      /\ SumIsOne(Envelope("Out", sample, i.crossFadeSize),
                  Envelope("In", sample, i.crossFadeSize))

\* C15: in the fixed engine with a crossfade size of at least 1, at every
\* output frame a fade-In write covers, the fade-Out write of the same splice
\* covers the frame too and the two envelopes that were added into the frame
\* sum to exactly 1, for every splice, repeats of the last grain included
C15_FadeWeightsSumToOne ==
  op = "fixed" /\ crossFadeSizeSamples >= 1 =>
    \A i \in calls :
      i.crossFade = "In" => \A k \in 0..(i.written - 1) : Complemented(i, k)

\* the four taps of a read are samples of the channel that was asked for
TapsOfChannel(t, channel, numCh) ==
  \A i \in {t.A, t.B, t.C, t.D} : i % numCh = channel

\* C16: every tap SampleChannelFractional reads for a channel of an
\* interleaved buffer is a sample of that channel (its offset is congruent to
\* the channel modulo the channel count), clamped taps included: in a direct
\* read at a defined position and in every read made by TimeAdjust and by
\* SplatGrainToOutput, whose output slot i belongs to channel i % numChannels
C16_TapsOfSameChannel ==
  /\ op = "read" /\ lastRead.sample * lastRead.numChannels < SizeMod - 2 * lastRead.numChannels =>
       TapsOfChannel(lastRead, lastRead.channel, lastRead.numChannels)
  /\ op \in {"fixed", "dynamic"} \/ (op = "resample" /\ numOutputSamples > 1) =>
       \A i \in DOMAIN output : \A t \in output[i] :
         TapsOfChannel(t.value, i % numChannels, numChannels)

====
